---- MODULE Spec2Model ----
(***************************************************************************)
(* Employee CRUD service (FastAPI routes -> service layer -> MongoDB       *)
(* collection), modelled as a state machine.                               *)
(*                                                                         *)
(* A request handler suspends only at its awaited storage calls            *)
(* (insert_one, find_one, update_one, delete_one); each action below is    *)
(* one such atomic storage call together with the handler code that runs   *)
(* up to the next await (or up to the response).                           *)
(*                                                                         *)
(* Python's Optional values are written None == <<>> and Some(v) == <<v>>. *)
(* A dict is a function from its keys to Optional values.  A str whose     *)
(* characters matter (a skill) is a sequence of one-character strings.     *)
(***************************************************************************)
EXTENDS Integers, Sequences, FiniteSets, TLC

VARIABLES
    _mongo_client,      \* app/db.py global: "None" or "client"
    _employees_coll,    \* app/db.py global: "None" or "coll"
    gw,                 \* position of the lifecycle caller: new, opening, opened, failed, closed
    uniqueIdx,          \* store: the unique index on employee_id exists
    docs,               \* store: the live documents of the collection
    nextOid,            \* store: the next ObjectId it assigns
    req,                \* per request slot: the request and its handler's position
    nreq,               \* number of requests accepted so far
    deleted,            \* history: ids whose document a delete removed on an open gateway, no insert since
    resp                \* the response the last step sent, NoResponse if it sent none

vars == <<_mongo_client, _employees_coll, gw, uniqueIdx, docs, nextOid, req, nreq, deleted, resp>>

gwVars == <<_mongo_client, _employees_coll, gw>>

-----------------------------------------------------------------------------
(* Bounds *)

MaxSlots == 2

MaxRequests == 3

MaxSkip == 2

MaxLimit == 3

-----------------------------------------------------------------------------
(* Values *)

None == <<>>

Some(v) == <<v>>

Slots == 1..MaxSlots

EmployeeIds == {"E1", "E2"}

UpdateFields == {"name", "department", "salary", "joining_date", "skills"}

MkDate(y, m, d) == [year |-> y, month |-> m, day |-> d]

Date1 == MkDate(2023, 1, 15)

Date2 == MkDate(2024, 2, 29)

Date3 == MkDate(2025, 12, 31)

Go == <<"G", "o">>

Sql == <<"S", "Q", "L">>

\* EmployeeCreate(...).dict(): all six fields, none null
EmployeeCreate(e, v) ==
    IF v = 1
    THEN [employee_id |-> Some(e), name |-> Some("Ann"), department |-> Some("A"),
          salary |-> Some(100), joining_date |-> Some(Date1), skills |-> Some(<<Go>>)]
    ELSE [employee_id |-> Some(e), name |-> Some("Bob"), department |-> Some("B"),
          salary |-> Some(200), joining_date |-> Some(Date2), skills |-> Some(<<>>)]

CreatePayloads == { EmployeeCreate(e, v) : e \in EmployeeIds, v \in 1..2 }

EmptyDict == [k \in {} |-> None]

NoResponse ==
    [op |-> "idle", eid |-> "", tok |-> None, input |-> EmptyDict, verified |-> 0, svc |-> 0,
     at |-> "", status |-> 0, outcome |-> "", res |-> None]

\* EmployeeUpdate(...).dict(exclude_unset=True): any subset of the five
\* updatable fields, each a value or null; employee_id is not a field of it
EmployeeUpdate ==
    { EmptyDict,
      [name |-> None, skills |-> None],
      [department |-> None, salary |-> Some(300)],
      [name |-> Some("Cy"), joining_date |-> Some(Date3), skills |-> Some(<<Sql, Go>>)] }

\* bearer credentials: missing header, bad signature, expired, no subject, valid
Tokens ==
    { None,
      Some([sig |-> FALSE, expired |-> FALSE, sub |-> Some("admin")]),
      Some([sig |-> TRUE, expired |-> TRUE, sub |-> Some("admin")]),
      Some([sig |-> TRUE, expired |-> FALSE, sub |-> None]),
      Some([sig |-> TRUE, expired |-> FALSE, sub |-> Some("admin")]) }

-----------------------------------------------------------------------------
(* Document codec *)

time_min == [hour |-> 0, minute |-> 0, second |-> 0]

datetime_combine_noon(d, t) ==
    [year |-> d.year, month |-> d.month, day |-> d.day,
     hour |-> 12, minute |-> t.minute, second |-> t.second]

\* datetime.combine(date, time)
datetime_combine(d, t) ==
    [year |-> d.year, month |-> d.month, day |-> d.day,
     hour |-> t.hour, minute |-> t.minute, second |-> t.second]

IsDatetime(v) == "hour" \in DOMAIN v

\* _ensure_datetime on a non-null date or datetime
_ensure_datetime(value) ==
    IF IsDatetime(value) THEN value ELSE datetime_combine(value, time_min)

_prepare_doc_for_insert(payload) ==
    [k \in DOMAIN payload |->
        IF k = "joining_date" /\ payload[k] # None
        THEN Some(_ensure_datetime(payload[k][1]))
        ELSE payload[k]]

_prepare_updates_keepnull(updates) ==
    [k \in DOMAIN updates |->
        IF k = "joining_date" /\ updates[k] # None
        THEN Some(_ensure_datetime(updates[k][1]))
        ELSE updates[k]]

_prepare_updates(updates) ==
    [k \in {f \in DOMAIN updates : updates[f] # None} |->
        IF k = "joining_date" THEN Some(_ensure_datetime(updates[k][1])) ELSE updates[k]]

Digit(n) == <<"0", "1", "2", "3", "4", "5", "6", "7", "8", "9">>[n + 1]

Pad2(n) == <<Digit((n \div 10) % 10), Digit(n % 10)>>

Pad4(n) == <<Digit((n \div 1000) % 10), Digit((n \div 100) % 10)>> \o Pad2(n)

\* datetime.date().isoformat(): YYYY-MM-DD, the time of day dropped
date_isoformat(dt) == Pad4(dt.year) \o <<"-">> \o Pad2(dt.month) \o <<"-">> \o Pad2(dt.day)

employee_helper_nonull(emp) ==
    IF emp = None
    THEN Some([id |-> "None", employee_id |-> None, name |-> None, department |-> None,
               salary |-> None, joining_date |-> None, skills |-> Some(<<>>)])
    ELSE LET d == emp[1] IN
         Some([id |-> ToString(d._id),
               employee_id |-> d.employee_id,
               name |-> d.name,
               department |-> d.department,
               salary |-> d.salary,
               joining_date |-> IF d.joining_date # None
                                THEN Some(date_isoformat(d.joining_date[1]))
                                ELSE None,
               skills |-> d.skills])

\* employee_helper: stored document (or None) -> API record (or None)
employee_helper(emp) ==
    IF emp = None THEN None
    ELSE LET d == emp[1] IN
         Some([id |-> ToString(d._id),
               employee_id |-> d.employee_id,
               name |-> d.name,
               department |-> d.department,
               salary |-> d.salary,
               joining_date |-> IF d.joining_date # None
                                THEN Some(date_isoformat(d.joining_date[1]))
                                ELSE None,
               skills |-> d.skills])

-----------------------------------------------------------------------------
(* Auth gate *)

\* jose jwt.decode: a bad signature or a passed expiry raises JWTError
decode_access_token(token) ==
    IF ~token.sig \/ token.expired
    THEN [err |-> "JWTError", sub |-> None]
    ELSE [err |-> "", sub |-> token.sub]

get_current_user_noauth(token) == [ok |-> TRUE, status |-> 0]

\* OAuth2PasswordBearer (401 without a bearer header) then get_current_user
get_current_user(token) ==
    IF token = None THEN [ok |-> FALSE, status |-> 401]
    ELSE LET payload == decode_access_token(token[1]) IN
         IF payload.err = "JWTError" THEN [ok |-> FALSE, status |-> 401]
         ELSE IF payload.sub = None THEN [ok |-> FALSE, status |-> 401]
         ELSE [ok |-> TRUE, status |-> 0]

-----------------------------------------------------------------------------
(* Persistence gateway *)

\* get_employees_collection: raises RuntimeError while the global is None
get_employees_collection == IF _employees_coll = "None" THEN "RuntimeError" ELSE "ok"

\* What a storage call can do: on an open gateway (healthy store) it is
\* executed; on a handle whose open failed or whose client was closed the
\* driver either still executes it or raises.
DriverOutcomes == IF gw = "opened" THEN {"ok"} ELSE {"ok", "error"}

Matching(eid) == {d \in docs : d.employee_id = Some(eid)}

HasDuplicates == \E d1, d2 \in docs : d1 # d2 /\ d1.employee_id = d2.employee_id

\* connect_to_mongo up to its first await: the globals are set first
ConnectBegin ==
    /\ gw \in {"new", "failed", "closed"}
    /\ _mongo_client' = "client"
    /\ _employees_coll' = "coll"
    /\ gw' = "opening"
    /\ resp' = NoResponse
    /\ UNCHANGED <<uniqueIdx, docs, nextOid, req, nreq, deleted>>

\* create_index("employee_id", unique=True) and the supporting indexes:
\* the unique index cannot be built over duplicate keys
ConnectIndexes ==
    /\ gw = "opening"
    /\ \/ /\ uniqueIdx \/ ~HasDuplicates
          /\ uniqueIdx' = TRUE
          /\ gw' = "opened"
       \/ /\ gw' = "failed"
          /\ UNCHANGED uniqueIdx
    /\ resp' = NoResponse
    /\ UNCHANGED <<_mongo_client, _employees_coll, docs, nextOid, req, nreq, deleted>>

\* close_mongo_connection: only _mongo_client is reset
close_mongo_connection ==
    /\ gw \in {"opened", "failed"}
    /\ _mongo_client' = "None"
    /\ gw' = "closed"
    /\ resp' = NoResponse
    /\ UNCHANGED <<_employees_coll, uniqueIdx, docs, nextOid, req, nreq, deleted>>

-----------------------------------------------------------------------------
(* Requests *)

\* input: the request body the route handed to the service (kept until the
\* request's storage write is done); body: the dict prepared for that write
Idle ==
    [op |-> "idle", eid |-> "", tok |-> None, input |-> EmptyDict, body |-> EmptyDict,
     pc |-> "idle", oid |-> 0, verified |-> 0, svc |-> 0]

\* the response to request r, sent by its handler at position `at`;
\* verified and svc count the times get_current_user returned a user and the
\* service function was called for it
Response(r, at, status, outcome, res) ==
    [op |-> r.op, eid |-> r.eid, tok |-> r.tok, input |-> r.input,
     verified |-> r.verified, svc |-> r.svc,
     at |-> at, status |-> status, outcome |-> outcome, res |-> res]

\* a new request is taken by the first idle handler slot
Free(s) ==
    /\ nreq < MaxRequests
    /\ req[s].pc = "idle"
    /\ \A t \in Slots : t < s => req[t].pc # "idle"

\* the handler returned before any storage call
Answer(r, status, outcome, res) ==
    /\ resp' = Response(r, "route", status, outcome, res)
    /\ nreq' = nreq + 1
    /\ UNCHANGED req

\* the handler is suspended at an awaited storage call
Suspend(s, r) ==
    /\ req' = [req EXCEPT ![s] = r]
    /\ nreq' = nreq + 1
    /\ resp' = NoResponse

\* the handler resumed from the storage call and returned
Finish(s, status, outcome, res) ==
    /\ resp' = Response(req[s], req[s].pc, status, outcome, res)
    /\ req' = [req EXCEPT ![s] = Idle]

Init ==
    /\ _mongo_client = "None"
    /\ _employees_coll = "None"
    /\ gw = "new"
    /\ uniqueIdx = FALSE
    /\ docs = {}
    /\ nextOid = 1
    /\ req = [s \in Slots |-> Idle]
    /\ nreq = 0
    /\ deleted = {}
    /\ resp = NoResponse

-----------------------------------------------------------------------------
(* Storage engine operations on the collection: each gives the possible      *)
(* results, the collection afterwards and what the driver returns            *)

\* the stored document: the inserted fields plus the assigned _id
Stored(doc, oid) ==
    [k \in DOMAIN doc \cup {"_id"} |-> IF k = "_id" THEN oid ELSE doc[k]]

insert_one_noindex(doc) ==
    {[err |-> "", docs |-> docs \cup {Stored(doc, nextOid)}, inserted_id |-> nextOid]}

\* insert_one: DuplicateKeyError when the unique index holds the key already
insert_one(doc) ==
    IF uniqueIdx /\ \E d \in docs : d.employee_id = doc.employee_id
    THEN {[err |-> "DuplicateKeyError", docs |-> docs, inserted_id |-> 0]}
    ELSE {[err |-> "", docs |-> docs \cup {Stored(doc, nextOid)}, inserted_id |-> nextOid]}

apply_set_all(d, update_doc) ==
    [k \in DOMAIN d \cup DOMAIN update_doc |->
        IF k \in DOMAIN update_doc THEN update_doc[k]
        ELSE IF k \in UpdateFields THEN None ELSE d[k]]

\* {"$set": update_doc} on document d
apply_set(d, update_doc) ==
    [k \in DOMAIN d \cup DOMAIN update_doc |->
        IF k \in DOMAIN update_doc THEN update_doc[k] ELSE d[k]]

update_one_upsert(eid, update_doc) ==
    IF Matching(eid) = {}
    THEN {[docs |-> docs \cup
                      {Stored([k \in UpdateFields \cup {"employee_id"} |->
                                 IF k \in DOMAIN update_doc THEN update_doc[k]
                                 ELSE IF k = "employee_id" THEN Some(eid) ELSE None],
                              nextOid)},
           matched_count |-> 0]}
    ELSE {[docs |-> (docs \ {d}) \cup {apply_set(d, update_doc)}, matched_count |-> 1] :
            d \in Matching(eid)}

\* update_one({"employee_id": eid}, {"$set": update_doc}), no upsert
update_one(eid, update_doc) ==
    IF Matching(eid) = {}
    THEN {[docs |-> docs, matched_count |-> 0]}
    ELSE {[docs |-> (docs \ {d}) \cup {apply_set(d, update_doc)}, matched_count |-> 1] :
            d \in Matching(eid)}

delete_one_by_id(eid) == {[docs |-> docs, deleted_count |-> 0]}

\* delete_one({"employee_id": eid})
delete_one(eid) ==
    IF Matching(eid) = {}
    THEN {[docs |-> docs, deleted_count |-> 0]}
    ELSE {[docs |-> docs \ {d}, deleted_count |-> 1] : d \in Matching(eid)}

\* find_one(filter): a matching document or None
find_one(matching) == IF matching = {} THEN {None} ELSE {Some(d) : d \in matching}

-----------------------------------------------------------------------------
(* POST /employees/ : routes.create_employee -> service.create_employee *)

PostEmployee(s, emp, token) ==
    /\ Free(s)
    /\ LET r == [Idle EXCEPT !.op = "create", !.eid = emp.employee_id[1], !.tok = token]
           user == get_current_user(token)
       IN IF ~user.ok
          THEN Answer(r, user.status, "AuthError", None)
          ELSE LET v == [r EXCEPT !.verified = 1, !.svc = 1, !.input = emp] IN
               IF get_employees_collection = "RuntimeError"
               THEN Answer(v, 500, "NotInitialized", None)
               ELSE Suspend(s, [v EXCEPT !.pc = "insert_one",
                                         !.body = _prepare_doc_for_insert(emp)])
    /\ UNCHANGED <<gwVars, uniqueIdx, docs, nextOid, deleted>>

\* await coll.insert_one(doc); DuplicateKeyError -> 400, any other -> 500
InsertOne(s) ==
    /\ req[s].pc = "insert_one"
    /\ \E o \in DriverOutcomes :
         IF o = "error"
         THEN /\ Finish(s, 500, "StorageError", None)
              /\ UNCHANGED <<docs, nextOid, deleted>>
         ELSE \E res \in insert_one(req[s].body) :
                IF res.err = "DuplicateKeyError"
                THEN /\ Finish(s, 400, "DuplicateKey", None)
                     /\ UNCHANGED <<docs, nextOid, deleted>>
                ELSE /\ docs' = res.docs
                     /\ nextOid' = nextOid + 1
                     /\ deleted' = deleted \ {req[s].eid}
                     /\ req' = [req EXCEPT ![s].pc = "find_one",
                                           ![s].oid = res.inserted_id,
                                           ![s].input = EmptyDict,
                                           ![s].body = EmptyDict]
                     /\ resp' = NoResponse
    /\ UNCHANGED <<gwVars, uniqueIdx, nreq>>

\* await coll.find_one({"_id": res.inserted_id}); employee_helper; the
\* returned value is validated against EmployeeOut (None fails: 500)
FindCreated(s) ==
    /\ req[s].pc = "find_one"
    /\ req[s].op = "create"
    /\ \E o \in DriverOutcomes :
         IF o = "error"
         THEN Finish(s, 500, "StorageError", None)
         ELSE \E created \in find_one({d \in docs : d._id = req[s].oid}) :
                LET out == employee_helper(created) IN
                IF out = None
                THEN Finish(s, 500, "ResponseValidationError", None)
                ELSE Finish(s, 201, "Created", out)
    /\ UNCHANGED <<gwVars, uniqueIdx, docs, nextOid, nreq, deleted>>

-----------------------------------------------------------------------------
(* GET /employees/{employee_id} : routes.get_employee -> service.get_employee_by_id *)

GetEmployee(s, employee_id) ==
    /\ Free(s)
    /\ LET r == [Idle EXCEPT !.op = "get", !.eid = employee_id, !.svc = 1] IN
       IF get_employees_collection = "RuntimeError"
       THEN Answer(r, 500, "NotInitialized", None)
       ELSE Suspend(s, [r EXCEPT !.pc = "find_one"])
    /\ UNCHANGED <<gwVars, uniqueIdx, docs, nextOid, deleted>>

\* await coll.find_one({"employee_id": employee_id}); 404 when there is none
FindOne(s) ==
    /\ req[s].pc = "find_one"
    /\ req[s].op = "get"
    /\ \E o \in DriverOutcomes :
         IF o = "error"
         THEN Finish(s, 500, "StorageError", None)
         ELSE \E doc \in find_one(Matching(req[s].eid)) :
                IF doc = None
                THEN Finish(s, 404, "NotFound", None)
                ELSE Finish(s, 200, "OK", employee_helper(doc))
    /\ UNCHANGED <<gwVars, uniqueIdx, docs, nextOid, nreq, deleted>>

-----------------------------------------------------------------------------
(* PUT /employees/{employee_id} : routes.update_employee -> service.update_employee *)

PutEmployee(s, employee_id, updates, token) ==
    /\ Free(s)
    /\ LET r == [Idle EXCEPT !.op = "update", !.eid = employee_id, !.tok = token]
           user == get_current_user(token)
       IN IF ~user.ok
          THEN Answer(r, user.status, "AuthError", None)
          ELSE LET v == [r EXCEPT !.verified = 1, !.svc = 1, !.input = updates]
                   update_doc == _prepare_updates(updates)
               IN IF get_employees_collection = "RuntimeError"
                  THEN Answer(v, 500, "NotInitialized", None)
                  ELSE IF DOMAIN update_doc = {}
                  THEN Answer(v, 400, "NoFieldsProvided", None)
                  ELSE Suspend(s, [v EXCEPT !.pc = "update_one", !.body = update_doc])
    /\ UNCHANGED <<gwVars, uniqueIdx, docs, nextOid, deleted>>

\* await coll.update_one(...); matched_count == 0 -> None -> 404
UpdateOne(s) ==
    /\ req[s].pc = "update_one"
    /\ \E o \in DriverOutcomes :
         IF o = "error"
         THEN /\ Finish(s, 500, "StorageError", None)
              /\ UNCHANGED docs
         ELSE \E res \in update_one(req[s].eid, req[s].body) :
                /\ docs' = res.docs
                /\ IF res.matched_count = 0
                   THEN Finish(s, 404, "NotFound", None)
                   ELSE /\ req' = [req EXCEPT ![s].pc = "find_one",
                                              ![s].input = EmptyDict,
                                              ![s].body = EmptyDict]
                        /\ resp' = NoResponse
    /\ UNCHANGED <<gwVars, uniqueIdx, nextOid, nreq, deleted>>

\* await coll.find_one({"employee_id": employee_id}); employee_helper; the
\* route answers 404 when the service returned None
FindUpdated(s) ==
    /\ req[s].pc = "find_one"
    /\ req[s].op = "update"
    /\ \E o \in DriverOutcomes :
         IF o = "error"
         THEN Finish(s, 500, "StorageError", None)
         ELSE \E doc \in find_one(Matching(req[s].eid)) :
                LET res == employee_helper(doc) IN
                IF res = None
                THEN Finish(s, 404, "NotFound", None)
                ELSE Finish(s, 200, "OK", res)
    /\ UNCHANGED <<gwVars, uniqueIdx, docs, nextOid, nreq, deleted>>

-----------------------------------------------------------------------------
(* DELETE /employees/{employee_id} : routes.delete_employee -> service.delete_employee *)

DeleteEmployee(s, employee_id) ==
    /\ Free(s)
    /\ LET r == [Idle EXCEPT !.op = "delete", !.eid = employee_id, !.svc = 1] IN
       IF get_employees_collection = "RuntimeError"
       THEN Answer(r, 500, "NotInitialized", None)
       ELSE Suspend(s, [r EXCEPT !.pc = "delete_one"])
    /\ UNCHANGED <<gwVars, uniqueIdx, docs, nextOid, deleted>>

\* await coll.delete_one(...); deleted_count == 1 -> 200, else 404
DeleteOne(s) ==
    /\ req[s].pc = "delete_one"
    /\ \E o \in DriverOutcomes :
         IF o = "error"
         THEN /\ Finish(s, 500, "StorageError", None)
              /\ UNCHANGED <<docs, deleted>>
         ELSE \E res \in delete_one(req[s].eid) :
                /\ docs' = res.docs
                /\ IF res.deleted_count = 1
                   THEN /\ Finish(s, 200, "Deleted", None)
                        /\ deleted' = IF gw = "opened" THEN deleted \cup {req[s].eid}
                                      ELSE deleted
                   ELSE /\ Finish(s, 404, "NotFound", None)
                        /\ UNCHANGED deleted
    /\ UNCHANGED <<gwVars, uniqueIdx, nextOid, nreq>>

-----------------------------------------------------------------------------
(* Query endpoints: one storage call each, a find cursor read to its end *)

\* a stored date as the tuple that orders it; null sorts lowest
DateKey(jd) ==
    IF jd = None THEN <<0, 0, 0, 0, 0, 0>>
    ELSE LET t == jd[1] IN <<t.year, t.month, t.day, t.hour, t.minute, t.second>>

\* a >= b in the order of BSON dates
DateGE(a, b) ==
    \/ a = b
    \/ \E i \in 1..6 : a[i] > b[i] /\ \A j \in 1..(i - 1) : a[j] = b[j]

\* the sequences that hold each document of S once (in any order)
RECURSIVE Orderings(_)
Orderings(S) ==
    IF S = {} THEN {<<>>}
    ELSE UNION { {<<d>> \o rest : rest \in Orderings(S \ {d})} : d \in S }

\* cursor.sort("joining_date", -1): newest first, documents with equal
\* dates in an order the store chooses
sort_desc(S) ==
    { o \in Orderings(S) :
        \A i \in 1..(Len(o) - 1) :
           DateGE(DateKey(o[i].joining_date), DateKey(o[i + 1].joining_date)) }

Min(a, b) == IF a < b THEN a ELSE b

\* cursor.skip(skip).limit(limit), limit >= 1
skip_limit(o, skip, limit) == SubSeq(o, skip + 1, Min(skip + limit, Len(o)))

\* [employee_helper(doc) async for doc in cursor]
helper_all(o) == [i \in 1..Len(o) |-> employee_helper(Some(o[i]))[1]]

\* query = {}; if department: query["department"] = department
\* (None and the empty string are both falsy)
list_query(department) ==
    IF department # None /\ department # Some("")
    THEN {d \in docs : d.department = department}
    ELSE docs

\* GET /employees/ : routes.list_employees -> service.list_employees
ListEmployees(department, skip, limit) ==
    /\ LET r == [Idle EXCEPT !.op = "list", !.svc = 1,
                             !.input = [department |-> department, skip |-> Some(skip),
                                        limit |-> Some(limit)]]
       IN IF get_employees_collection = "RuntimeError"
          THEN resp' = Response(r, "route", 500, "NotInitialized", None)
          ELSE \E o \in DriverOutcomes :
                 IF o = "error"
                 THEN resp' = Response(r, "find", 500, "StorageError", None)
                 ELSE \E sorted \in sort_desc(list_query(department)) :
                        resp' = Response(r, "find", 200, "OK",
                                         Some(helper_all(skip_limit(sorted, skip, limit))))
    /\ UNCHANGED <<gwVars, uniqueIdx, docs, nextOid, req, nreq, deleted>>

AsciiUpper == <<"A", "B", "C", "D", "E", "F", "G", "H", "I", "J", "K", "L", "M",
                "N", "O", "P", "Q", "R", "S", "T", "U", "V", "W", "X", "Y", "Z">>

AsciiLower == <<"a", "b", "c", "d", "e", "f", "g", "h", "i", "j", "k", "l", "m",
                "n", "o", "p", "q", "r", "s", "t", "u", "v", "w", "x", "y", "z">>

\* the lower-case form of a character
Lower(c) ==
    IF \E i \in 1..26 : AsciiUpper[i] = c
    THEN AsciiLower[CHOOSE i \in 1..26 : AsciiUpper[i] = c]
    ELSE c

LowerStr(str) == [i \in 1..Len(str) |-> Lower(str[i])]

\* The regular expression ^pattern$ with option i, for patterns made of
\* ordinary characters, "." (any one character) and "(" (which opens a
\* group: without its ")" the expression is invalid and the find fails).
regex_valid(pattern) == \A i \in 1..Len(pattern) : pattern[i] # "("

regex_fullmatch_i(pattern, text) ==
    /\ Len(pattern) = Len(text)
    /\ \A i \in 1..Len(pattern) :
         pattern[i] = "." \/ Lower(pattern[i]) = Lower(text[i])

Elements(seq) == {seq[i] : i \in 1..Len(seq)}

SkillsOf(d) == IF d.skills = None THEN {} ELSE Elements(d.skills[1])

\* find({"skills": {"$elemMatch": {"$regex": f"^{skill}$", "$options": "i"}}})
\* or find({"skills": skill}): the skill string goes into the pattern as it is
search_query(skill, case_insensitive) ==
    IF case_insensitive
    THEN {d \in docs : \E e \in SkillsOf(d) : regex_fullmatch_i(skill, e)}
    ELSE {d \in docs : skill \in SkillsOf(d)}

\* GET /employees/search : routes.search_by_skill -> service.search_employees_by_skill
SearchBySkill(skill, skip, limit, case_insensitive) ==
    /\ LET r == [Idle EXCEPT !.op = "search", !.svc = 1,
                             !.input = [skill |-> Some(skill), skip |-> Some(skip),
                                        limit |-> Some(limit),
                                        case_insensitive |-> Some(case_insensitive)]]
       IN IF get_employees_collection = "RuntimeError"
          THEN resp' = Response(r, "route", 500, "NotInitialized", None)
          ELSE \E o \in DriverOutcomes :
                 IF o = "error"
                 THEN resp' = Response(r, "find", 500, "StorageError", None)
                 ELSE IF case_insensitive /\ ~regex_valid(skill)
                 THEN resp' = Response(r, "find", 500, "OperationFailure", None)
                 ELSE \E sorted \in sort_desc(search_query(skill, case_insensitive)) :
                        resp' = Response(r, "find", 200, "OK",
                                         Some(helper_all(skip_limit(sorted, skip, limit))))
    /\ UNCHANGED <<gwVars, uniqueIdx, docs, nextOid, req, nreq, deleted>>

-----------------------------------------------------------------------------
(* Aggregation: average salary by department *)

\* the sum of the salaries of the documents of S
RECURSIVE SumSalary(_)
SumSalary(S) ==
    IF S = {} THEN 0
    ELSE LET d == CHOOSE x \in S : TRUE IN d.salary[1] + SumSalary(S \ {d})

\* {"$group": {"_id": "$department", "avg_salary": {"$avg": "$salary"}}}:
\* one group per distinct department, its average kept as the exact
\* fraction sum / n
group_by_department ==
    { [_id |-> dep,
       sum |-> SumSalary({d \in docs : d.department = dep}),
       n   |-> Cardinality({d \in docs : d.department = dep})] :
      dep \in {d.department : d \in docs} }

round_floor(sum, n) == sum \div n

\* {"$round": [x, 0]} on the non-negative average sum / n: the nearest
\* integer, a tie going to the even one
round_half_even(sum, n) ==
    LET q == sum \div n
        r == sum % n
    IN IF 2 * r < n THEN q
       ELSE IF 2 * r > n THEN q + 1
       ELSE IF q % 2 = 0 THEN q ELSE q + 1

\* {"$project": {"department": "$_id", "avg_salary": {"$round": [...]}, "_id": 0}}
project(g) == [department |-> g._id, avg_salary |-> round_half_even(g.sum, g.n)]

\* the department names used here, in ascending order of their bytes
DepartmentNames == <<"", "A", "B">>

\* string comparison a < b of two department values
DepartmentLess(a, b) ==
    \E i, j \in 1..Len(DepartmentNames) :
       i < j /\ a = Some(DepartmentNames[i]) /\ b = Some(DepartmentNames[j])

\* {"$sort": {"department": 1}}
sort_department(S) ==
    { o \in Orderings(S) :
        \A i \in 1..(Len(o) - 1) :
           o[i].department = o[i + 1].department
           \/ DepartmentLess(o[i].department, o[i + 1].department) }

\* service.average_salary_by_department, called as a function
average_salary_by_department ==
    /\ LET r == [Idle EXCEPT !.op = "average_salary_by_department", !.svc = 1] IN
       IF get_employees_collection = "RuntimeError"
       THEN resp' = Response(r, "service", 0, "NotInitialized", None)
       ELSE \E o \in DriverOutcomes :
              IF o = "error"
              THEN resp' = Response(r, "aggregate", 0, "StorageError", None)
              ELSE \E rows \in sort_department({project(g) : g \in group_by_department}) :
                     resp' = Response(r, "aggregate", 0, "Returned", Some(rows))
    /\ UNCHANGED <<gwVars, uniqueIdx, docs, nextOid, req, nreq, deleted>>

\* GET /employees/avg-salary : routes.avg_salary_by_department looks up
\* employee_service.avg_salary_by_department, a name the service module does
\* not define: AttributeError before any service code runs, answered by the
\* application's handler for unhandled exceptions
GetAvgSalary ==
    /\ resp' = Response([Idle EXCEPT !.op = "avg_salary"], "route", 500, "AttributeError", None)
    /\ UNCHANGED <<gwVars, uniqueIdx, docs, nextOid, req, nreq, deleted>>

-----------------------------------------------------------------------------
(* Specifications *)

\* a create, update or delete request arrives and its handler runs up to
\* its first storage call
WriteArrivals ==
    \/ \E s \in Slots, emp \in CreatePayloads, token \in Tokens : PostEmployee(s, emp, token)
    \/ \E s \in Slots, e \in EmployeeIds, u \in EmployeeUpdate, token \in Tokens :
         PutEmployee(s, e, u, token)
    \/ \E s \in Slots, e \in EmployeeIds : DeleteEmployee(s, e)

\* a suspended create, update or delete handler's storage call is executed
\* and the handler goes on
WriteCompletions ==
    \/ \E s \in Slots : InsertOne(s)
    \/ \E s \in Slots : FindCreated(s)
    \/ \E s \in Slots : UpdateOne(s)
    \/ \E s \in Slots : FindUpdated(s)
    \/ \E s \in Slots : DeleteOne(s)

\* the read of one employee
Reads ==
    \/ \E s \in Slots, e \in EmployeeIds : GetEmployee(s, e)
    \/ \E s \in Slots : FindOne(s)

\* the module's functions called in any order: connect_to_mongo and
\* close_mongo_connection whenever the caller likes, requests at any time
Next ==
    \/ ConnectBegin
    \/ ConnectIndexes
    \/ close_mongo_connection
    \/ WriteArrivals
    \/ WriteCompletions
    \/ Reads

Spec == Init /\ [][Next]_vars

\* the service as it runs: connect_to_mongo has completed at startup on an
\* empty collection
InitOpened ==
    /\ _mongo_client = "client"
    /\ _employees_coll = "coll"
    /\ gw = "opened"
    /\ uniqueIdx = TRUE
    /\ docs = {}
    /\ nextOid = 1
    /\ req = [s \in Slots |-> Idle]
    /\ nreq = 0
    /\ deleted = {}
    /\ resp = NoResponse

\* main.py: startup has run connect_to_mongo once and requests are accepted
\* from then until shutdown, which runs close_mongo_connection; handlers
\* still suspended then resume on the closed client.  Only the requests that
\* write are taken: a read changes nothing a write or its response depends on.
NextOpened ==
    \/ close_mongo_connection
    \/ gw = "opened" /\ WriteArrivals
    \/ WriteCompletions

SpecOpened == InitOpened /\ [][NextOpened]_vars

\* sample stored documents for the query endpoints
GoLower == <<"g", "o">>

GoUpper == <<"G", "O">>

Golang == <<"G", "o", "l", "a", "n", "g">>

GDot == <<"G", ".">>

QueryDoc(oid, e, n, dep, sal, jd, sk) ==
    [_id |-> oid, employee_id |-> Some(e), name |-> Some(n), department |-> Some(dep),
     salary |-> Some(sal), joining_date |-> Some(datetime_combine(jd, time_min)),
     skills |-> Some(sk)]

QueryPool ==
    { QueryDoc(1, "E1", "Ann", "A", 100, Date1, <<Go, Sql>>),
      QueryDoc(2, "E2", "Bob", "B", 200, Date2, <<GoLower, Golang>>),
      QueryDoc(3, "E3", "Cy", "A", 300, Date3, <<GoUpper>>),
      QueryDoc(4, "E4", "Di", "", 150, Date2, <<GDot>>) }

Departments == {None, Some(""), Some("A"), Some("B")}

SearchSkills == {Go, GoLower, Golang, GDot, <<"R">>, <<"(", "G", "o">>}

\* the gateway open on a collection holding any of the sample documents
InitQuery ==
    /\ _mongo_client = "client"
    /\ _employees_coll = "coll"
    /\ gw = "opened"
    /\ uniqueIdx = TRUE
    /\ docs \in SUBSET QueryPool
    /\ nextOid = 5
    /\ req = [s \in Slots |-> Idle]
    /\ nreq = 0
    /\ deleted = {}
    /\ resp = NoResponse

NextQuery ==
    \/ \E dep \in Departments, skip \in 0..MaxSkip, limit \in 1..MaxLimit :
         ListEmployees(dep, skip, limit)
    \/ \E skill \in SearchSkills, skip \in 0..MaxSkip, limit \in 1..MaxLimit,
          ci \in BOOLEAN :
         SearchBySkill(skill, skip, limit, ci)

SpecQuery == InitQuery /\ [][NextQuery]_vars

\* sample stored documents for the aggregation
AvgPool ==
    { QueryDoc(1, "E1", "Ann", "A", 100, Date1, <<Go>>),
      QueryDoc(2, "E2", "Bob", "A", 200, Date2, <<>>),
      QueryDoc(3, "E3", "Cy", "A", 203, Date3, <<>>),
      QueryDoc(4, "E4", "Di", "B", 300, Date1, <<Sql>>),
      QueryDoc(5, "E5", "Ed", "B", 301, Date2, <<>>),
      QueryDoc(6, "E6", "Flo", "", 150, Date3, <<>>) }

\* the gateway open on a collection holding any of the sample documents
InitAvg ==
    /\ _mongo_client = "client"
    /\ _employees_coll = "coll"
    /\ gw = "opened"
    /\ uniqueIdx = TRUE
    /\ docs \in SUBSET AvgPool
    /\ nextOid = 7
    /\ req = [s \in Slots |-> Idle]
    /\ nreq = 0
    /\ deleted = {}
    /\ resp = NoResponse

NextAvg ==
    \/ average_salary_by_department
    \/ GetAvgSalary

SpecAvg == InitAvg /\ [][NextAvg]_vars

\* the calendar dates pydantic accepts for a `date` field, over sample years:
\* the first year, a three-digit year, a century that is not a leap year,
\* one that is, a leap year and the last year
DateYears == {1, 999, 1900, 2000, 2024, 9999}

IsLeap(y) == (y % 4 = 0 /\ y % 100 # 0) \/ y % 400 = 0

DaysInMonth(y, m) ==
    IF m = 2 THEN (IF IsLeap(y) THEN 29 ELSE 28)
    ELSE IF m \in {4, 6, 9, 11} THEN 30 ELSE 31

ValidDates ==
    { dt \in { MkDate(y, m, d) : y \in DateYears, m \in 1..12, d \in 1..31 } :
        dt.day <= DaysInMonth(dt.year, dt.month) }

ValidToken == Some([sig |-> TRUE, expired |-> FALSE, sub |-> Some("admin")])

\* the request PostEmployee leaves suspended at insert_one for payload emp
CreateInFlight(emp) ==
    [Idle EXCEPT !.op = "create", !.eid = emp.employee_id[1], !.tok = ValidToken,
                 !.verified = 1, !.svc = 1, !.input = emp,
                 !.pc = "insert_one", !.body = _prepare_doc_for_insert(emp)]

\* the request PutEmployee leaves suspended at update_one for body updates
UpdateInFlight(employee_id, updates) ==
    [Idle EXCEPT !.op = "update", !.eid = employee_id, !.tok = ValidToken,
                 !.verified = 1, !.svc = 1, !.input = updates,
                 !.pc = "update_one", !.body = _prepare_updates(updates)]

\* the open service with one authorised request accepted, its joining_date
\* any valid date: a create on the empty collection, or an update of the one
\* stored employee
InitDates ==
    /\ _mongo_client = "client"
    /\ _employees_coll = "coll"
    /\ gw = "opened"
    /\ uniqueIdx = TRUE
    /\ nreq = 1
    /\ deleted = {}
    /\ resp = NoResponse
    /\ \E d \in ValidDates :
         \/ /\ docs = {}
            /\ nextOid = 1
            /\ req = [s \in Slots |->
                        IF s = 1
                        THEN CreateInFlight([EmployeeCreate("E1", 1) EXCEPT
                                                !.joining_date = Some(d)])
                        ELSE Idle]
         \/ /\ docs = {Stored(_prepare_doc_for_insert(EmployeeCreate("E1", 1)), 1)}
            /\ nextOid = 2
            /\ req = [s \in Slots |->
                        IF s = 1
                        THEN UpdateInFlight("E1", [joining_date |-> Some(d)])
                        ELSE Idle]

NextDates ==
    \/ \E s \in Slots : InsertOne(s)
    \/ \E s \in Slots : FindCreated(s)
    \/ \E s \in Slots : UpdateOne(s)
    \/ \E s \in Slots : FindUpdated(s)

SpecDates == InitDates /\ [][NextDates]_vars

-----------------------------------------------------------------------------
(* Properties *)

\* a step in which a new request was accepted
ArrivedNow == nreq' = nreq + 1

\* a step in which the handler in slot s resumed from its storage call `at`
ResumedNow(s, at) == req[s].pc = at /\ req'[s] # req[s]

\* the fields an update body supplies with a non-null value
EffectiveFields(updates) == {k \in DOMAIN updates : updates[k] # None}

\* a bearer credential that is present, correctly signed, unexpired and
\* names a subject
ValidCredential(tok) ==
    tok # None /\ tok[1].sig /\ ~tok[1].expired /\ tok[1].sub # None

Protected == {"create", "update"}

\* C1: once the gateway has been opened, in every state reachable by any
\* interleaving of create, update and delete requests no two live documents
\* have the same employee_id.
C1_UniqueEmployeeId ==
    \A d1, d2 \in docs : d1.employee_id = d2.employee_id => d1 = d2

\* a create was rejected as a duplicate while both employees are stored
C1_Witness ==
    /\ resp.outcome = "DuplicateKey"
    /\ Cardinality(docs) = 2

\* C2: on an open gateway, a create whose employee_id a live document has
\* already is answered 400 DuplicateKey whatever its other fields are and
\* leaves the collection as it was; a create of an employee_id no document
\* has inserts exactly that record and goes on to read it back.
C2_DuplicateCreateRejected ==
    [][\A s \in Slots :
         (ResumedNow(s, "insert_one") /\ gw = "opened") =>
            IF Matching(req[s].eid) # {}
            THEN /\ resp'.status = 400
                 /\ resp'.outcome = "DuplicateKey"
                 /\ docs' = docs
            ELSE /\ req'[s].pc = "find_one"
                 /\ resp' = NoResponse
                 /\ \E d \in docs' :
                      /\ docs' = docs \cup {d}
                      /\ d \notin docs
                      /\ \A k \in DOMAIN req[s].input \ {"joining_date"} :
                            d[k] = req[s].input[k]]_vars

\* a create of an id stored with other field values was rejected
C2_Witness ==
    /\ resp.op = "create"
    /\ resp.status = 400
    /\ gw = "opened"
    /\ \E d \in Matching(resp.eid) : d.name # resp.input.name

\* C3 (as claimed): a service operation called while the gateway is not
\* open (never opened, open in progress or failed, or closed) fails with
\* NotInitialized without reaching the store, and storage calls are made
\* only on an open gateway.
C3_NotInitializedOutsideOpen ==
    [][/\ (ArrivedNow /\ gw # "opened") =>
            /\ req' = req
            /\ resp'.svc = 1 => resp'.outcome = "NotInitialized"
       /\ \A s \in Slots :
            (req[s].pc # "idle" /\ req'[s] # req[s]) => gw = "opened"]_vars

\* C4: an update whose effective field set is empty (no field, or only
\* null fields), made with a valid credential on an initialised gateway, is
\* answered 400 NoFieldsProvided at once for every employee_id: no storage
\* call is issued and the collection is unchanged.
C4_NoFieldsProvided ==
    [][ArrivedNow =>
         /\ \A s \in Slots :
              (req'[s] # req[s] /\ req'[s].op = "update") =>
                 EffectiveFields(req'[s].input) # {}
         /\ (req' = req /\ resp'.op = "update" /\ resp'.svc = 1
                /\ _employees_coll # "None" /\ EffectiveFields(resp'.input) = {}) =>
              /\ resp'.status = 400
              /\ resp'.outcome = "NoFieldsProvided"
              /\ docs' = docs]_vars

\* an update with only null fields on a stored employee was refused
C4_Witness ==
    /\ resp.outcome = "NoFieldsProvided"
    /\ resp.input = [name |-> None, skills |-> None]
    /\ Matching(resp.eid) # {}

\* C5: on an open gateway, an update with at least one non-null field on an
\* employee_id that no live document has is answered 404 NotFound and the
\* collection is unchanged (nothing is upserted).
C5_UpdateMissingNotFound ==
    [][\A s \in Slots :
         (ResumedNow(s, "update_one") /\ gw = "opened" /\ Matching(req[s].eid) = {}) =>
            /\ EffectiveFields(req[s].input) # {}
            /\ resp'.status = 404
            /\ resp'.outcome = "NotFound"
            /\ docs' = docs]_vars

\* update_one matched nothing while another employee is stored
C5_Witness ==
    /\ resp.op = "update"
    /\ resp.at = "update_one"
    /\ resp.status = 404
    /\ gw = "opened"
    /\ docs # {}

\* C6: an update_one that matched changes, in one document with the
\* targeted employee_id, only the fields the request supplies with a
\* non-null value (to that value, a date as its midnight timestamp); the
\* document's other fields, its employee_id and _id, and every other
\* document are unchanged.
C6_UpdateFrame ==
    [][\A s \in Slots :
         (ResumedNow(s, "update_one") /\ req'[s].pc = "find_one") =>
            \E d \in Matching(req[s].eid) :
              \E d2 \in docs' :
                /\ docs' \ {d2} = docs \ {d}
                /\ DOMAIN d2 = DOMAIN d
                /\ d2._id = d._id
                /\ d2.employee_id = d.employee_id
                /\ \A k \in DOMAIN d \ EffectiveFields(req[s].input) : d2[k] = d[k]
                /\ \A k \in EffectiveFields(req[s].input) \ {"joining_date"} :
                      d2[k] = req[s].input[k]
                /\ "joining_date" \in EffectiveFields(req[s].input) =>
                      /\ d2.joining_date[1].year = req[s].input.joining_date[1].year
                      /\ d2.joining_date[1].month = req[s].input.joining_date[1].month
                      /\ d2.joining_date[1].day = req[s].input.joining_date[1].day
                      /\ d2.joining_date[1].hour = 0]_vars

\* an update of salary alone (department sent null) has been written while
\* a second employee is stored
C6_Witness ==
    /\ Cardinality(docs) = 2
    /\ \E s \in Slots :
         /\ req[s].op = "update"
         /\ req[s].pc = "find_one"
         /\ \E d \in Matching(req[s].eid) :
              d.salary = Some(300) /\ d.department # None /\ d.name = Some("Ann")

\* C7: on an open gateway, a delete of a stored employee_id removes exactly
\* that document and is answered 200; a delete of an employee_id that a
\* delete removed, with no create of it since, finds no document; a delete
\* that finds no document is answered 404 NotFound (no error) and leaves the
\* collection unchanged.
C7_DeleteIdempotent ==
    [][\A s \in Slots :
         (ResumedNow(s, "delete_one") /\ gw = "opened") =>
            /\ req[s].eid \in deleted => Matching(req[s].eid) = {}
            /\ IF Matching(req[s].eid) # {}
               THEN /\ \E d \in Matching(req[s].eid) : docs' = docs \ {d}
                    /\ {d \in docs' : d.employee_id = Some(req[s].eid)} = {}
                    /\ resp'.status = 200
               ELSE /\ docs' = docs
                    /\ resp'.status = 404
                    /\ resp'.outcome = "NotFound"]_vars

\* the second delete of an employee was answered 404
C7_Witness ==
    /\ resp.op = "delete"
    /\ resp.status = 404
    /\ resp.eid \in deleted
    /\ gw = "opened"

C9_ListPage ==
    (resp.op = "list" /\ resp.status = 200) =>
       LET department == resp.input.department
           skip == resp.input.skip[1]
           limit == resp.input.limit[1]
           wanted == IF department = None THEN docs
                     ELSE {d \in docs : d.department = department}
       IN \E o \in Orderings(wanted) :
            /\ \A i \in 1..(Len(o) - 1) :
                 DateGE(DateKey(o[i].joining_date), DateKey(o[i + 1].joining_date))
            /\ Len(resp.res[1]) = Min(skip + limit, Len(o)) - Min(skip, Len(o))
            /\ \A i \in 1..Len(resp.res[1]) :
                 resp.res[1][i].id = ToString(o[skip + i]._id)

\* C10 (as claimed): searchBySkill never fails, and with the whole result
\* on one page it returns a document if and only if its skills hold an
\* element equal to skill: exactly when caseInsensitive is false, ignoring
\* letter case (the characters of skill taken literally) when it is true.
C10_SearchWholeElement ==
    resp.op = "search" =>
       LET skill == resp.input.skill[1]
           ci == resp.input.case_insensitive[1]
           wanted == {d \in docs : \E e \in SkillsOf(d) :
                        IF ci THEN LowerStr(e) = LowerStr(skill) ELSE e = skill}
       IN /\ resp.status = 200
          /\ (resp.input.skip[1] = 0 /\ resp.input.limit[1] >= Cardinality(docs)) =>
                {resp.res[1][i].id : i \in 1..Len(resp.res[1])}
                   = {ToString(d._id) : d \in wanted}

\* the documents of one department
OfDepartment(dep) == {d \in docs : d.department = dep}

\* the claim's example collection: {A,100}, {A,200}, {B,300}
ExampleDocs == {d \in AvgPool : d._id \in {1, 2, 4}}

\* C11: averageSalaryByDepartment() returns exactly one pair per distinct
\* department among the stored documents; each avg_salary is a whole number
\* nearest to the arithmetic mean of that department's salaries; the pairs
\* are in ascending order of department name; for {A,100},{A,200},{B,300}
\* the result is [{A,150},{B,300}].
C11_AverageSalaryByDepartment ==
    (resp.op = "average_salary_by_department" /\ resp.outcome = "Returned") =>
       LET rows == resp.res[1] IN
       /\ {rows[i].department : i \in 1..Len(rows)} = {d.department : d \in docs}
       /\ Len(rows) = Cardinality({d.department : d \in docs})
       /\ \A i \in 1..Len(rows) :
             LET G == OfDepartment(rows[i].department)
                 n == Cardinality(G)
                 diff == rows[i].avg_salary * n - SumSalary(G)
             IN /\ 2 * diff <= n
                /\ 2 * (0 - diff) <= n
       /\ \A i, j \in 1..Len(rows) :
             i < j => DepartmentLess(rows[i].department, rows[j].department)
       /\ docs = ExampleDocs =>
             rows = <<[department |-> Some("A"), avg_salary |-> 150],
                      [department |-> Some("B"), avg_salary |-> 300]>>

C11_Witness ==
    /\ resp.op = "average_salary_by_department"
    /\ resp.outcome = "Returned"
    /\ docs = ExampleDocs
    /\ Len(resp.res[1]) = 2
    /\ resp.res[1][1].avg_salary = 150

\* C12: with the gateway open and the store healthy, every GET
\* /employees/avg-salary request calls the service's
\* average-salary-by-department operation and is answered 200 with the
\* sequence of {department, avg_salary} that operation returns.
C12_AvgSalaryEndpoint ==
    (resp.op = "avg_salary" /\ gw = "opened") =>
       /\ resp.status = 200
       /\ resp.svc = 1
       /\ resp.res \in { Some(rows) :
                           rows \in sort_department({project(g) : g \in group_by_department}) }

\* the value of a decimal digit character
DigitValue(c) == CHOOSE n \in 0..9 : Digit(n) = c

IsDigit(c) == \E n \in 0..9 : Digit(n) = c

\* str has the shape YYYY-MM-DD
IsIsoDate(str) ==
    /\ Len(str) = 10
    /\ str[5] = "-"
    /\ str[8] = "-"
    /\ \A i \in {1, 2, 3, 4, 6, 7, 9, 10} : IsDigit(str[i])

\* the date a YYYY-MM-DD string denotes
ParseIsoDate(str) ==
    MkDate(1000 * DigitValue(str[1]) + 100 * DigitValue(str[2])
             + 10 * DigitValue(str[3]) + DigitValue(str[4]),
           10 * DigitValue(str[6]) + DigitValue(str[7]),
           10 * DigitValue(str[9]) + DigitValue(str[10]))

\* midnight of date d, written out
MidnightOf(d) ==
    [year |-> d.year, month |-> d.month, day |-> d.day,
     hour |-> 0, minute |-> 0, second |-> 0]

\* the joining_date string of an API record decodes to date d
DecodesTo(record, d) ==
    /\ record.joining_date # None
    /\ IsIsoDate(record.joining_date[1])
    /\ ParseIsoDate(record.joining_date[1]) = d

\* every stored joining_date is a midnight, and decoding it gives its date
C13_StoredDates ==
    \A doc \in docs :
       /\ doc.joining_date # None
       /\ LET jd == doc.joining_date[1] IN
          /\ jd.hour = 0 /\ jd.minute = 0 /\ jd.second = 0
          /\ DecodesTo(employee_helper(Some(doc))[1], MkDate(jd.year, jd.month, jd.day))

\* a create or update stores midnight of the supplied date, and the record
\* it then returns carries the stored date
C13_StepDates ==
    \A s \in Slots :
       /\ (ResumedNow(s, "insert_one") /\ req'[s].pc = "find_one") =>
             \E doc \in docs' \ docs :
                /\ doc._id = req'[s].oid
                /\ doc.joining_date = Some(MidnightOf(req[s].input.joining_date[1]))
                /\ DecodesTo(employee_helper(Some(doc))[1], req[s].input.joining_date[1])
       /\ (ResumedNow(s, "update_one") /\ req'[s].pc = "find_one"
           /\ "joining_date" \in EffectiveFields(req[s].input)) =>
             \A doc \in docs' :
                doc.employee_id = Some(req[s].eid) =>
                   /\ doc.joining_date = Some(MidnightOf(req[s].input.joining_date[1]))
                   /\ DecodesTo(employee_helper(Some(doc))[1],
                                req[s].input.joining_date[1])
       /\ (ResumedNow(s, "find_one") /\ resp'.res # None) =>
             \E doc \in docs :
                /\ ToString(doc._id) = resp'.res[1].id
                /\ LET jd == doc.joining_date[1] IN
                   DecodesTo(resp'.res[1], MkDate(jd.year, jd.month, jd.day))

\* C13: for every valid calendar date d supplied as joining_date to create or
\* update, the stored joining_date is midnight of d; every stored
\* joining_date has a zero time of day; decoding the stored value gives d
\* back as YYYY-MM-DD.
C13_JoiningDateRoundTrip == [](C13_StoredDates) /\ [][C13_StepDates]_vars

C13_Witness ==
    /\ resp.op = "create"
    /\ resp.outcome = "Created"
    /\ resp.res[1].joining_date = Some(<<"0", "0", "0", "1", "-", "0", "2", "-", "2", "8">>)
    /\ \E doc \in docs : doc.joining_date = Some(MidnightOf(MkDate(1, 2, 28)))

\* C14: on the open gateway an update that reached its storage calls ends as
\* NotFound (404) or with a decoded record (200), never anything else; when
\* the document it matched is gone at the re-read (a concurrent delete took
\* effect after update_one) the outcome is NotFound, and the re-read changes
\* nothing.
C14_UpdateDeleteRace ==
    [][\A s \in Slots :
         /\ (gw = "opened" /\ req[s].op = "update" /\ req'[s] # req[s]
             /\ req[s].pc \in {"update_one", "find_one"} /\ req'[s].pc = "idle") =>
               resp'.outcome \in {"NotFound", "OK"}
         /\ (gw = "opened" /\ req[s].op = "update" /\ ResumedNow(s, "find_one")) =>
               /\ docs' = docs
               /\ IF Matching(req[s].eid) = {}
                  THEN resp'.status = 404 /\ resp'.outcome = "NotFound" /\ resp'.res = None
                  ELSE /\ resp'.status = 200
                       /\ resp'.res \in {employee_helper(Some(d)) : d \in Matching(req[s].eid)}
      ]_vars

C14_Witness ==
    /\ gw = "opened"
    /\ resp.op = "update"
    /\ resp.at = "find_one"
    /\ resp.outcome = "NotFound"
    /\ resp.eid \in deleted
    /\ Matching(resp.eid) = {}

\* C15: every create whose insert succeeded is answered 201 with the decoded
\* record carrying the storage-assigned id, whatever other requests took
\* effect between its insert and its read-back.
C15_CreateReadBack ==
    [][\A s \in Slots :
         (gw = "opened" /\ req[s].op = "create" /\ ResumedNow(s, "find_one")) =>
            /\ resp'.status = 201
            /\ resp'.res # None
            /\ resp'.res[1].id = ToString(req[s].oid)
            /\ resp'.res[1].employee_id = Some(req[s].eid)
      ]_vars

====
